---- MODULE Spec2Model ----
(***************************************************************************)
(* A model of eval.cpp: the interactive arithmetic evaluator.  A line of   *)
(* text is tokenized and parsed by recursive descent (level1 .. level_top) *)
(* straight into a postfix vector of symbols; understanding() replays the  *)
(* symbols over a stack of strings and run() over a stack of doubles.      *)
(*                                                                         *)
(* Text is a sequence of one-character strings; positions are 0-based as   *)
(* in the C++ code, and reading at the end of the text yields NUL.         *)
(***************************************************************************)
EXTENDS Integers, Sequences, FiniteSets, TLC

NUL == "NUL"

Digits == {"0", "1", "2", "3", "4", "5", "6", "7", "8", "9"}

Letters == {"a", "b", "c", "d", "e", "f", "g", "h", "i", "j", "k", "l", "m",
            "n", "o", "p", "q", "r", "s", "t", "u", "v", "w", "x", "y", "z"}

Ch(line, p) == IF p < Len(line) THEN line[p + 1] ELSE NUL

isdigit(ch) == ch \in Digits

isalpha(ch) == ch \in Letters

isspace(ch) == ch \in {" ", "\t", "\n"}

isprint(ch) == ch \notin {"\t", "\n", NUL}

isname(ch) == isdigit(ch) \/ isalpha(ch) \/ ch = "_"

(***************************************************************************)
(* Doubles.  A finite double is kept as an exact decimal m * 10^x with m   *)
(* free of trailing zeros and of at most nine digits (zero is m = 0,       *)
(* x = 0).  A literal above DBL_MAX = 1.797693134...e308 is HUGE_VAL, kept *)
(* as inf, and one below the least subnormal is 0.  The results of         *)
(* arithmetic are kept as terms over these values (see run).               *)
(***************************************************************************)
MaxDecimalExponent == 308

MinDecimalExponent == -324

\* The first nine digits of DBL_MAX.
DoubleMaxDigits == <<1, 7, 9, 7, 6, 9, 3, 1, 3>>

RECURSIVE DecimalOf(_, _)
DecimalOf(ds, n) == IF n = 0 THEN 0 ELSE 10 * DecimalOf(ds, n - 1) + ds[n]

PrintPrecision == 6

ErrorSnippetLength == 20

Inf == [inf |-> TRUE, m |-> 0, x |-> 0]

RECURSIVE Pow10(_)
Pow10(n) == IF n = 0 THEN 1 ELSE 10 * Pow10(n - 1)

RECURSIVE NumDigits(_)
NumDigits(m) == IF m < 10 THEN 1 ELSE 1 + NumDigits(m \div 10)

\* m, of at most as many digits as DoubleMaxDigits, exceeds DBL_MAX's digits.
AboveDoubleMax(m) ==
    m * Pow10(Len(DoubleMaxDigits) - NumDigits(m))
        > DecimalOf(DoubleMaxDigits, Len(DoubleMaxDigits))

RECURSIVE Normalize(_, _)
Normalize(m, x) ==
    IF m = 0 THEN [inf |-> FALSE, m |-> 0, x |-> 0]
    ELSE IF m % 10 = 0 THEN Normalize(m \div 10, x + 1)
    ELSE IF x + NumDigits(m) - 1 > MaxDecimalExponent THEN Inf
    ELSE IF x + NumDigits(m) - 1 = MaxDecimalExponent /\ AboveDoubleMax(m) THEN Inf
    ELSE IF x + NumDigits(m) - 1 < MinDecimalExponent
    THEN [inf |-> FALSE, m |-> 0, x |-> 0]
    ELSE [inf |-> FALSE, m |-> m, x |-> x]

DigitVal(ch) ==
    CASE ch = "0" -> 0 [] ch = "1" -> 1 [] ch = "2" -> 2 [] ch = "3" -> 3
      [] ch = "4" -> 4 [] ch = "5" -> 5 [] ch = "6" -> 6 [] ch = "7" -> 7
      [] ch = "8" -> 8 [] ch = "9" -> 9

DigitCh(d) == <<"0", "1", "2", "3", "4", "5", "6", "7", "8", "9">>[d + 1]

RECURSIVE DigitsOf(_)
DigitsOf(m) == IF m < 10 THEN <<DigitCh(m)>>
               ELSE Append(DigitsOf(m \div 10), DigitCh(m % 10))

RECURSIVE Zeros(_)
Zeros(n) == IF n <= 0 THEN <<>> ELSE <<"0">> \o Zeros(n - 1)

\* The value of the digits line[from .. to) read as a decimal numeral.
RECURSIVE DigitRun(_, _, _)
DigitRun(line, from, to) ==
    IF from >= to THEN 0
    ELSE 10 * DigitRun(line, from, to - 1) + DigitVal(Ch(line, to - 1))

\* The position after the digits starting at p.
RECURSIVE ScanDigits(_, _)
ScanDigits(line, p) == IF isdigit(Ch(line, p)) THEN ScanDigits(line, p + 1) ELSE p

(***************************************************************************)
(* strtod on a decimal numeral that starts with a digit: digits, an        *)
(* optional '.' and digits, an optional exponent (e or E, an optional      *)
(* sign, at least one digit).  Returns the value and the end position.     *)
(* The hexadecimal form needs an 'x' after a leading 0.                    *)
(***************************************************************************)
\* The numeral's value: integer digits line[p0 .. p1), nfrac fraction digits
\* ending at p2, and the exponent ex.
strtod_value(line, p0, p1, p2, nfrac, ex) ==
    Normalize(DigitRun(line, p0, p1) * Pow10(nfrac)
                  + (IF nfrac > 0 THEN DigitRun(line, p1 + 1, p2) ELSE 0),
              ex - nfrac)

\* The exponent's digits are line[q .. p3), its sign character (if any) at p2 + 1.
strtod_exponent(line, p0, p1, p2, q, p3) ==
    [value |-> strtod_value(line, p0, p1, p2, IF p2 > p1 THEN p2 - p1 - 1 ELSE 0,
                   (IF Ch(line, p2 + 1) = "-" THEN -1 ELSE 1) * DigitRun(line, q, p3)),
     endpos |-> p3]

\* The mantissa ends at p2; q is where the exponent's digits would start.
strtod_mantissa(line, p0, p1, p2, q) ==
    IF Ch(line, p2) \in {"e", "E"} /\ isdigit(Ch(line, q))
    THEN strtod_exponent(line, p0, p1, p2, q, ScanDigits(line, q))
    ELSE [value |-> strtod_value(line, p0, p1, p2, IF p2 > p1 THEN p2 - p1 - 1 ELSE 0, 0),
          endpos |-> p2]

\* The integer digits end at p1, the fraction (if any) at p2.
strtod_fraction(line, p0, p1, p2) ==
    strtod_mantissa(line, p0, p1, p2,
        IF Ch(line, p2 + 1) \in {"+", "-"} THEN p2 + 2 ELSE p2 + 1)

strtod_integer(line, p0, p1) ==
    strtod_fraction(line, p0, p1,
        IF Ch(line, p1) = "." THEN ScanDigits(line, p1 + 1) ELSE p1)

strtod(line, p0) == strtod_integer(line, p0, ScanDigits(line, p0))

(***************************************************************************)
(* dtostr: operator<< of a double on a default stream, i.e. printf's %g    *)
(* with precision 6.                                                       *)
(***************************************************************************)
\* m * 10^x with the last k digits of m rounded away, ties to even.
RoundAway(m, x, k) ==
    IF k <= 0 THEN Normalize(m, x)
    ELSE IF m % Pow10(k) > 5 * Pow10(k - 1)
            \/ (m % Pow10(k) = 5 * Pow10(k - 1) /\ (m \div Pow10(k)) % 2 = 1)
    THEN Normalize((m \div Pow10(k)) + 1, x + k)
    ELSE Normalize(m \div Pow10(k), x + k)

\* m * 10^x rounded to PrintPrecision significant digits.
RoundSig(m, x) == RoundAway(m, x, NumDigits(m) - PrintPrecision)

\* The digits ds with decimal exponent X (the value is d.ddd * 10^X).
FormatScientific(ds, X) ==
    <<ds[1]>>
    \o (IF Len(ds) > 1 THEN <<".">> \o SubSeq(ds, 2, Len(ds)) ELSE <<>>)
    \o <<"e", IF X < 0 THEN "-" ELSE "+">>
    \o (IF X > -10 /\ X < 10 THEN <<"0">> ELSE <<>>)
    \o DigitsOf(IF X < 0 THEN -X ELSE X)

FormatFixed(ds, X) ==
    IF X >= 0
    THEN (IF Len(ds) <= X + 1 THEN ds \o Zeros(X + 1 - Len(ds))
          ELSE SubSeq(ds, 1, X + 1) \o <<".">> \o SubSeq(ds, X + 2, Len(ds)))
    ELSE <<"0", ".">> \o Zeros(-X - 1) \o ds

FormatDigits(ds, X) ==
    IF X < -4 \/ X >= PrintPrecision THEN FormatScientific(ds, X)
    ELSE FormatFixed(ds, X)

FormatRounded(r) ==
    IF r.inf THEN <<"i", "n", "f">>
    ELSE FormatDigits(DigitsOf(r.m), r.x + NumDigits(r.m) - 1)

dtostr(d) ==
    IF d.inf THEN <<"i", "n", "f">>
    ELSE IF d.m = 0 THEN <<"0">>
    ELSE FormatRounded(RoundSig(d.m, d.x))

(***************************************************************************)
(* Symbols, variables and the parser's state.                              *)
(***************************************************************************)
Symbol(a, b) == [type |-> a, value |-> b]

Variable(a, b) == [name |-> a, value |-> b]

\* Evaluator(): the two named values, to nine significant digits.
variables ==
    << Variable(<<"e">>, [inf |-> FALSE, m |-> 271828183, x |-> -8]),
       Variable(<<"p", "i">>, [inf |-> FALSE, m |-> 314159265, x |-> -8]) >>

RECURSIVE find_variable_from(_, _)
find_variable_from(name, i) ==
    IF i < Len(variables) /\ variables[i + 1].name # name
    THEN find_variable_from(name, i + 1)
    ELSE i

find_variable(name) == find_variable_from(name, 0)

\* The characters error() records: up to l of them from pos, a backslash
\* before each one that is not printable.
RECURSIVE error_snippet(_, _, _)
error_snippet(line, i, stop) ==
    IF i >= stop \/ Ch(line, i) = NUL THEN <<>>
    ELSE (IF isprint(Ch(line, i)) THEN <<Ch(line, i)>> ELSE <<"\\", Ch(line, i)>>)
         \o error_snippet(line, i + 1, stop)

\* The message m (with the name it mentions, if any), the snippet and the
\* position the caret points at.
error(line, st, m, name) ==
    [kind |-> "diagnostic", message |-> m, name |-> name, at |-> st.pos,
     snippet |-> error_snippet(line, st.pos, st.pos + ErrorSnippetLength)]

\* cout << error(...) << endl
report(line, st, m) == [st EXCEPT !.out = Append(@, error(line, st, m, <<>>))]

report_name(line, st, m, name) ==
    [st EXCEPT !.out = Append(@, error(line, st, m, name))]

fail(st) == [st EXCEPT !.ok = FALSE]

RECURSIVE eatspace(_, _)
eatspace(line, st) ==
    IF isspace(Ch(line, st.pos)) THEN eatspace(line, [st EXCEPT !.pos = @ + 1])
    ELSE st

nextch(line, st) == eatspace(line, [st EXCEPT !.pos = @ + 1])

\* The double strtod found is appended to constants by the caller's push_back.
got_double(st, r) == [st EXCEPT !.pos = r.endpos, !.constants = Append(@, r.value)]

get_double(line, st) == got_double(st, strtod(line, st.pos))

\* The end position of the name starting at p (do ... while isname).
RECURSIVE name_end(_, _)
name_end(line, p) == IF isname(Ch(line, p + 1)) THEN name_end(line, p + 1) ELSE p + 1

get_name(line, st) == SubSeq(line, st.pos + 1, name_end(line, st.pos))

push_symbol(st, sym) == [st EXCEPT !.symbols = Append(@, sym)]

\* A slip: the index taken before the size counts the new constant.
push_constant_symbol_size(st) == push_symbol(st, Symbol("CONSTANT", Len(st.constants)))

\* symbols.push_back(Symbol(CONSTANT, constants.size() - 1))
push_constant_symbol(st) == push_symbol(st, Symbol("CONSTANT", Len(st.constants) - 1))

MathFunctionOf(name) ==
    CASE name = <<"c", "o", "s">> -> "COS"
      [] name = <<"e", "x", "p">> -> "EXP"
      [] name = <<"l", "o", "g">> -> "LOG"
      [] name = <<"s", "i", "n">> -> "SIN"
      [] name = <<"t", "a", "n">> -> "TAN"
      [] OTHER -> "NONE"

RECURSIVE level1(_, _), level1_loop(_, _), level2(_, _), level2_loop(_, _),
          level3(_, _), level4(_, _), level4_loop(_, _), level_top(_, _)

\* After an operand was parsed into r: the failure is passed on, else the
\* symbol sym of the operator that took the operand is pushed.
then_push(r, sym) == IF ~r.ok THEN r ELSE push_symbol(r, sym)

\* A slip: the right operand of + and - parsed by level1 itself.
level1_loop_right(line, st) ==
    IF ~st.ok THEN st
    ELSE IF Ch(line, st.pos) \in {"+", "-"}
    THEN level1_loop(line,
             then_push(level1(line, nextch(line, st)),
                       Symbol("OPERATOR", Ch(line, st.pos))))
    ELSE st

\* The while loop of level1: the binary operators + and -, left to right.
level1_loop(line, st) ==
    IF ~st.ok THEN st
    ELSE IF Ch(line, st.pos) \in {"+", "-"}
    THEN level1_loop(line,
             then_push(level2(line, nextch(line, st)),
                       Symbol("OPERATOR", Ch(line, st.pos))))
    ELSE st

level1(line, st) == level1_loop(line, level2(line, st))

\* The while loop of level2: the binary operators * and /, left to right.
level2_loop(line, st) ==
    IF ~st.ok THEN st
    ELSE IF Ch(line, st.pos) \in {"*", "/"}
    THEN level2_loop(line,
             then_push(level3(line, nextch(line, st)),
                       Symbol("OPERATOR", Ch(line, st.pos))))
    ELSE st

level2(line, st) == level2_loop(line, level3(line, st))

\* The unary operator -.
level3(line, st) ==
    IF Ch(line, st.pos) = "-"
    THEN then_push(level3(line, nextch(line, st)), Symbol("OPERATOR", "n"))
    ELSE level4(line, st)

\* A slip: the right operand of ^ parsed by level_top.
level4_loop_top(line, st) ==
    IF ~st.ok THEN st
    ELSE IF Ch(line, st.pos) = "^"
    THEN level4_loop(line,
             then_push(level_top(line, nextch(line, st)), Symbol("OPERATOR", "^")))
    ELSE st

\* The while loop of level4: the power operator ^, its right operand from level3.
level4_loop(line, st) ==
    IF ~st.ok THEN st
    ELSE IF Ch(line, st.pos) = "^"
    THEN level4_loop(line,
             then_push(level3(line, nextch(line, st)), Symbol("OPERATOR", "^")))
    ELSE st

level4(line, st) == level4_loop(line, level_top(line, st))

\* A slip: the operand of a function parsed by level2.
level_top_name_level2(line, st, name) ==
    IF MathFunctionOf(name) # "NONE"
    THEN then_push(level2(line, st), Symbol("MATHFN", MathFunctionOf(name)))
    ELSE IF find_variable(name) # Len(variables)
    THEN push_constant_symbol(
             [st EXCEPT !.constants = Append(@, variables[find_variable(name) + 1].value)])
    ELSE fail(report_name(line, st, "unknown name: ", name))

\* The name was read and the blanks after it skipped (st): one of the five
\* functions applied to a level3 operand, or a variable.
level_top_name(line, st, name) ==
    IF MathFunctionOf(name) # "NONE"
    THEN then_push(level3(line, st), Symbol("MATHFN", MathFunctionOf(name)))
    ELSE IF find_variable(name) # Len(variables)
    THEN push_constant_symbol(
             [st EXCEPT !.constants = Append(@, variables[find_variable(name) + 1].value)])
    ELSE fail(report_name(line, st, "unknown name: ", name))

\* After the expression in parentheses was parsed into r.
level_top_close(line, r) ==
    IF ~r.ok THEN r
    ELSE IF Ch(line, r.pos) # ")" THEN fail(report(line, r, "expected ')'"))
    ELSE nextch(line, r)

level_top(line, st) ==
    IF isdigit(Ch(line, st.pos))
    THEN push_constant_symbol(eatspace(line, get_double(line, st)))
    ELSE IF Ch(line, st.pos) = "("
    THEN level_top_close(line, level1(line, nextch(line, st)))
    ELSE IF isalpha(Ch(line, st.pos)) \/ Ch(line, st.pos) = "_"
    THEN level_top_name(line,
             eatspace(line, [st EXCEPT !.pos = name_end(line, st.pos)]),
             get_name(line, st))
    ELSE IF Ch(line, st.pos) = NUL
    THEN report(line, st, "unexpected end of input")
    ELSE fail(report(line, st, "unexpected character"))

\* After level1 parsed a statement into r: ';' or the end must follow.
parse_statement_end(line, r) ==
    IF ~r.ok THEN r
    ELSE IF Ch(line, r.pos) # ";" /\ Ch(line, r.pos) # NUL
    THEN fail(report(line, r, "expected ';' or end of input"))
    ELSE IF Ch(line, r.pos) = ";"
    THEN nextch(line, push_symbol(r, Symbol("OPERATOR", ";")))
    ELSE push_symbol(r, Symbol("OPERATOR", ";"))

\* One turn of the while loop of parse(): a statement, then ';' or the end.
parse_statement(line, st) == parse_statement_end(line, level1(line, st))

\* line = str; pos = 0; eatspace();
parse_begin(line, st) == eatspace(line, [st EXCEPT !.pos = 0, !.ok = TRUE])

RECURSIVE parse_loop(_, _)
parse_loop(line, st) ==
    IF ~st.ok \/ Ch(line, st.pos) = NUL THEN st
    ELSE parse_loop(line, parse_statement(line, st))

\* parse(str) on an evaluator holding the given constants and symbols.
parse(line, st) == parse_loop(line, parse_begin(line, st))

Fresh == [pos |-> 0, constants |-> <<>>, symbols |-> <<>>, out |-> <<>>, ok |-> TRUE]

(***************************************************************************)
(* The working stack of understanding() and run().  back() and pop_back()  *)
(* on an empty vector are undefined: the build either stops the process    *)
(* there, or reads whatever lies before the buffer and leaves size() below *)
(* zero (under counts how far).  Garbage stands for what is read there.    *)
(***************************************************************************)
EmptyStack == [items |-> <<>>, under |-> 0]

StackSize(s) == Len(s.items) - s.under

stack_push(s, v) ==
    IF s.under > 0 THEN [s EXCEPT !.under = @ - 1]
    ELSE [s EXCEPT !.items = Append(@, v)]

stack_back(s, garbage) ==
    IF Len(s.items) > 0 THEN s.items[Len(s.items)] ELSE garbage

stack_pop(s) ==
    IF Len(s.items) > 0 THEN [s EXCEPT !.items = SubSeq(@, 1, Len(@) - 1)]
    ELSE [s EXCEPT !.under = @ + 1]

\* How many operands the symbol takes off the stack.
Operands(sym) ==
    IF sym.type = "CONSTANT" THEN 0
    ELSE IF sym.type = "MATHFN" THEN 1
    ELSE IF sym.type = "OPERATOR" THEN (IF sym.value \in {";", "n"} THEN 1 ELSE 2)
    ELSE 0

\* The symbol reads an element the stack does not hold.
Underflows(s, sym) == Len(s.items) < Operands(sym)

UBOutcomes == {"stop", "garbage"}

GarbageText == <<"<garbage>">>

GarbageValue == [garbage |-> TRUE]

UnknownText == <<"?", "?", "?", "?">>

MathFunctionText(fn) ==
    CASE fn = "COS" -> <<"c", "o", "s">>
      [] fn = "EXP" -> <<"e", "x", "p">>
      [] fn = "LOG" -> <<"l", "o", "g">>
      [] fn = "SIN" -> <<"s", "i", "n">>
      [] fn = "TAN" -> <<"t", "a", "n">>
      [] OTHER -> <<>>

(***************************************************************************)
(* understanding(): the for loop from symbol i on, with the stack s of     *)
(* strings and the text expr built so far.  The result says whether the    *)
(* process stopped, what was printed, and the string returned.             *)
(***************************************************************************)
RECURSIVE understanding_loop(_, _, _, _, _, _)
understanding_loop(symbols, constants, i, s, expr, ub) ==
    IF i >= Len(symbols)
    THEN IF StackSize(s) # 0
         THEN [stopped |-> FALSE, out |-> <<[kind |-> "unfinished"]>>, ret |-> UnknownText]
         ELSE [stopped |-> FALSE, out |-> <<>>, ret |-> expr]
    ELSE
      LET sym == symbols[i + 1]
          b == stack_back(s, GarbageText)
          s1 == stack_pop(s)
          a == stack_back(s1, GarbageText)
          s2 == stack_pop(s1)
      IN  IF Underflows(s, sym) /\ ub = "stop"
          THEN [stopped |-> TRUE, out |-> <<>>, ret |-> <<>>]
          ELSE IF sym.type = "CONSTANT"
          THEN understanding_loop(symbols, constants, i + 1,
                   stack_push(s, dtostr(constants[sym.value + 1])), expr, ub)
          ELSE IF sym.type = "MATHFN"
          THEN IF MathFunctionText(sym.value) = <<>>
               THEN [stopped |-> FALSE, out |-> <<>>, ret |-> UnknownText]
               ELSE understanding_loop(symbols, constants, i + 1,
                        stack_push(s1, MathFunctionText(sym.value) \o <<"(">> \o b \o <<")">>),
                        expr, ub)
          ELSE IF sym.type = "OPERATOR"
          THEN IF sym.value = ";"
               THEN understanding_loop(symbols, constants, i + 1, s1,
                        expr \o b \o <<";", "\n">>, ub)
               ELSE IF sym.value = "n"
               THEN understanding_loop(symbols, constants, i + 1,
                        stack_push(s1, <<"(", "-">> \o b \o <<")">>), expr, ub)
               ELSE IF sym.value \in {"+", "-", "*", "/", "^"}
               THEN understanding_loop(symbols, constants, i + 1,
                        stack_push(s2, <<"(">> \o a \o <<sym.value>> \o b \o <<")">>),
                        expr, ub)
               ELSE [stopped |-> FALSE, out |-> <<>>, ret |-> UnknownText]
          ELSE understanding_loop(symbols, constants, i + 1, s, expr, ub)

understanding(symbols, constants, ub) ==
    understanding_loop(symbols, constants, 0, EmptyStack, <<>>, ub)

(***************************************************************************)
(* run(): the same loop over a stack of doubles.  The result of an         *)
(* operation is the term of its operands: [fn, a] for a math function,     *)
(* [op, a] for negation, [op, a, b] for a binary operator.                 *)
(***************************************************************************)
RECURSIVE run_loop(_, _, _, _, _, _)
run_loop(symbols, constants, i, s, out, ub) ==
    IF i >= Len(symbols)
    THEN IF StackSize(s) # 0
         THEN [stopped |-> FALSE, out |-> Append(out, [kind |-> "unfinished"]), ret |-> FALSE]
         ELSE [stopped |-> FALSE, out |-> out, ret |-> TRUE]
    ELSE
      LET sym == symbols[i + 1]
          b == stack_back(s, GarbageValue)
          s1 == stack_pop(s)
          a == stack_back(s1, GarbageValue)
          s2 == stack_pop(s1)
      IN  IF Underflows(s, sym) /\ ub = "stop"
          THEN [stopped |-> TRUE, out |-> out, ret |-> FALSE]
          ELSE IF sym.type = "CONSTANT"
          THEN run_loop(symbols, constants, i + 1,
                   stack_push(s, constants[sym.value + 1]), out, ub)
          ELSE IF sym.type = "MATHFN"
          THEN IF sym.value \in {"COS", "EXP", "LOG", "SIN", "TAN"}
               THEN run_loop(symbols, constants, i + 1,
                        stack_push(s1, [fn |-> sym.value, a |-> b]), out, ub)
               ELSE [stopped |-> FALSE, ret |-> FALSE,
                     out |-> Append(out, [kind |-> "unknown math function"])]
          ELSE IF sym.type = "OPERATOR"
          THEN IF sym.value = ";"
               THEN run_loop(symbols, constants, i + 1, s1,
                        Append(out, [kind |-> "Evaluation", value |-> b]), ub)
               ELSE IF sym.value = "n"
               THEN run_loop(symbols, constants, i + 1,
                        stack_push(s1, [op |-> "n", a |-> b]), out, ub)
               ELSE IF sym.value \in {"+", "-", "*", "/", "^"}
               THEN run_loop(symbols, constants, i + 1,
                        stack_push(s2, [op |-> sym.value, a |-> a, b |-> b]), out, ub)
               ELSE [stopped |-> FALSE, ret |-> FALSE,
                     out |-> Append(out, [kind |-> "unknown operator"])]
          ELSE run_loop(symbols, constants, i + 1, s, out, ub)

run(symbols, constants, ub) == run_loop(symbols, constants, 0, EmptyStack, <<>>, ub)

\* A slip: the constants kept.
clear_symbols_only(st) == [st EXCEPT !.symbols = <<>>]

\* clear(): both vectors emptied.
clear(st) == [st EXCEPT !.constants = <<>>, !.symbols = <<>>]

(***************************************************************************)
(* The lines typed at the prompt.                                          *)
(***************************************************************************)
MaxLen == 3

MaxChain == 3

QuitCommand == <<"q", "u", "i", "t">>

FunctionNames == { <<"c", "o", "s">>, <<"e", "x", "p">>, <<"l", "o", "g">>,
                   <<"s", "i", "n">>, <<"t", "a", "n">> }

\* Numeric literals and the two variable names.
Atoms == { <<"2">>, <<"1", "0">>, <<"1", ".", "5">>, <<"3", "e", "2">>,
           <<"e">>, <<"p", "i">> }

Lexemes == { <<"1">>, <<"e">>, <<"s", "i", "n">>, <<"q">>, <<"+">>, <<"-">>,
             <<"^">>, <<"(">>, <<")">>, <<";">>, <<" ">>, <<"$">> }

\* Every line of n lexemes.
RECURSIVE LexemeLines(_)
LexemeLines(n) ==
    IF n = 0 THEN {<<>>}
    ELSE {l \o x : l \in LexemeLines(n - 1), x \in Lexemes}

GeneralLines == UNION {LexemeLines(n) : n \in 0..MaxLen}

\* a^b^c, a^-b^c and -a^b.
PowerLines ==
    {a \o <<"^">> \o b \o <<"^">> \o c : a \in Atoms, b \in Atoms, c \in Atoms}
    \cup {a \o <<"^", "-">> \o b \o <<"^">> \o c : a \in Atoms, b \in Atoms, c \in Atoms}
    \cup {<<"-">> \o a \o <<"^">> \o b : a \in Atoms, b \in Atoms}

\* a-b-c, a/b*c and a+b*c.
TierLines ==
    {a \o <<"-">> \o b \o <<"-">> \o c : a \in Atoms, b \in Atoms, c \in Atoms}
    \cup {a \o <<"/">> \o b \o <<"*">> \o c : a \in Atoms, b \in Atoms, c \in Atoms}
    \cup {a \o <<"+">> \o b \o <<"*">> \o c : a \in Atoms, b \in Atoms, c \in Atoms}

ChainAtoms == {<<"2">>, <<"e">>}

RECURSIVE ChainText(_, _, _)
ChainText(xs, ops, n) ==
    IF n = 0 THEN xs[1] ELSE ChainText(xs, ops, n - 1) \o <<ops[n]>> \o xs[n + 1]

\* x1 op1 x2 ... opN x(N+1) with every op in the same tier.
ChainLinesOver(tier) ==
    UNION { {ChainText(xs, ops, n) : xs \in [1..(n + 1) -> ChainAtoms], ops \in [1..n -> tier]}
            : n \in 1..MaxChain }

ChainLines == ChainLinesOver({"+", "-"}) \cup ChainLinesOver({"*", "/"})

\* f g a, f a^b, f -a and f a^b*c.
FunctionLines ==
    {f \o <<" ">> \o g \o <<" ">> \o a : f \in FunctionNames, g \in FunctionNames, a \in Atoms}
    \cup {f \o <<" ">> \o a \o <<"^">> \o b : f \in FunctionNames, a \in Atoms, b \in Atoms}
    \cup {f \o <<" ", "-">> \o a : f \in FunctionNames, a \in Atoms}
    \cup {f \o <<" ">> \o a \o <<"^">> \o b \o <<"*">> \o c :
             f \in FunctionNames, a \in Atoms, b \in Atoms, c \in Atoms}

\* The expressions one step larger than those of S: negated, applied to,
\* parenthesized, and combined by a binary operator.
Grow(S, T) ==
    S \cup {<<"-">> \o x : x \in S}
      \cup {<<"s", "i", "n", " ">> \o x : x \in S}
      \cup {<<"(">> \o x \o <<")">> : x \in S}
      \cup {x \o <<op>> \o y : x \in S, y \in T, op \in {"+", "*", "^"}}

Expr0 == {<<"2">>}

Expr1 == Grow(Expr0, Expr0)

Expr2 == Grow(Expr1, Expr1)

ExpressionLines == Grow(Expr2, Expr0)

Lines == GeneralLines \cup PowerLines \cup TierLines \cup ChainLines
         \cup FunctionLines \cup ExpressionLines \cup {QuitCommand}

(***************************************************************************)
(* The session: main() reads a line, eval() parses it, prints the          *)
(* understanding and runs it, and main() clears the evaluator.             *)
(*   pc         where main() and eval() stand                              *)
(*   line, pos  the text being parsed and the cursor                       *)
(*   constants, symbols   the evaluator's two vectors                      *)
(*   out        what was printed since the last prompt                     *)
(*   ret        what eval() last returned                                  *)
(* Between clear() and the next parse() the text and the cursor are dead   *)
(* (parse() sets both before it reads either), so the prompt is modelled   *)
(* with both reset.                                                        *)
(***************************************************************************)
VARIABLES pc, line, pos, constants, symbols, out, ret

vars == <<pc, line, pos, constants, symbols, out, ret>>

\* The evaluator's members as the parser's state.
Members == [pos |-> pos, constants |-> constants, symbols |-> symbols,
            out |-> out, ok |-> TRUE]

Init ==
    /\ pc = "read"
    /\ line = <<>>
    /\ pos = 0
    /\ constants = <<>>
    /\ symbols = <<>>
    /\ out = <<>>
    /\ ret = "none"

\* getline(cin, input); "quit" ends the loop, any other line goes to eval().
GetLine ==
    /\ pc = "read"
    /\ \E input \in Lines :
         IF input = QuitCommand
         THEN pc' = "exit" /\ UNCHANGED line
         ELSE pc' = "eval" /\ line' = input
    /\ UNCHANGED <<pos, constants, symbols, out, ret>>

\* parse(): line = str; pos = 0; eatspace().
ParseBegin ==
    /\ pc = "eval"
    /\ pos' = parse_begin(line, Members).pos
    /\ pc' = "parse"
    /\ UNCHANGED <<line, constants, symbols, out, ret>>

\* One turn of the while loop of parse(); a failure makes eval() return false.
ParseStatement ==
    /\ pc = "parse"
    /\ Ch(line, pos) # NUL
    /\ LET r == parse_statement(line, Members)
       IN  /\ pos' = r.pos
           /\ constants' = r.constants
           /\ symbols' = r.symbols
           /\ out' = r.out
           /\ pc' = IF r.ok THEN "parse" ELSE "error"
           /\ ret' = IF r.ok THEN ret ELSE "false"
    /\ UNCHANGED line

\* The while loop ends: parse() returns true.
ParseReturn ==
    /\ pc = "parse"
    /\ Ch(line, pos) = NUL
    /\ pc' = "understanding"
    /\ UNCHANGED <<line, pos, constants, symbols, out, ret>>

\* cout << "Understanding:" << endl << understanding() << endl;
Understanding ==
    /\ pc = "understanding"
    /\ \E ub \in UBOutcomes :
         LET r == understanding(symbols, constants, ub)
         IN  /\ out' = Append(out, [kind |-> "Understanding:"]) \o r.out
                        \o (IF r.stopped THEN <<>>
                            ELSE <<[kind |-> "understanding", text |-> r.ret]>>)
             /\ pc' = IF r.stopped THEN "stopped" ELSE "run"
    /\ UNCHANGED <<line, pos, constants, symbols, ret>>

\* run(), and the return of eval().
Run ==
    /\ pc = "run"
    /\ \E ub \in UBOutcomes :
         LET r == run(symbols, constants, ub)
         IN  /\ out' = out \o r.out
             /\ pc' = IF r.stopped THEN "stopped" ELSE IF r.ret THEN "clear" ELSE "error"
             /\ ret' = IF r.stopped THEN ret ELSE IF r.ret THEN "true" ELSE "false"
    /\ UNCHANGED <<line, pos, constants, symbols>>

\* main(): eval() returned false.
ReportError ==
    /\ pc = "error"
    /\ out' = Append(out, [kind |-> "error"])
    /\ pc' = "clear"
    /\ UNCHANGED <<line, pos, constants, symbols, ret>>

\* main(): test.clear(), and back to the prompt.
Clear ==
    /\ pc = "clear"
    /\ constants' = clear(Members).constants
    /\ symbols' = clear(Members).symbols
    /\ pc' = "read"
    /\ line' = <<>>
    /\ pos' = 0
    /\ out' = <<>>
    /\ UNCHANGED ret

Next ==
    \/ GetLine
    \/ ParseBegin
    \/ ParseStatement
    \/ ParseReturn
    \/ Understanding
    \/ Run
    \/ ReportError
    \/ Clear

Spec == Init /\ [][Next]_vars

(***************************************************************************)
(* What the properties below speak of.                                     *)
(***************************************************************************)
PushConstant(i) == Symbol("CONSTANT", i)

CallFunction(fn) == Symbol("MATHFN", fn)

ApplyOperator(op) == Symbol("OPERATOR", op)

StatementEnd == ApplyOperator(";")

\* The same instructions in the same order, a constant by its pool position.
SameProgram(p, q) ==
    /\ Len(p) = Len(q)
    /\ \A i \in 1..Len(p) : p[i].type = q[i].type /\ p[i].value = q[i].value

Diagnostics(o) == SelectSeq(o, LAMBDA x : x.kind = "diagnostic")

Evaluations(o) == SelectSeq(o, LAMBDA x : x.kind = "Evaluation")

Reconstructions(o) == SelectSeq(o, LAMBDA x : x.kind = "understanding")

Printed(o, kind) == \E i \in 1..Len(o) : o[i].kind = kind

\* parse() returned true on the current line.
Accepted == pc = "understanding" \/ Printed(out, "Understanding:")

\* The text with its pieces between occurrences of sep.
RECURSIVE SplitFrom(_, _, _, _)
SplitFrom(text, sep, i, cur) ==
    IF i > Len(text) THEN <<cur>>
    ELSE IF text[i] = sep THEN <<cur>> \o SplitFrom(text, sep, i + 1, <<>>)
    ELSE SplitFrom(text, sep, i + 1, Append(cur, text[i]))

SplitOn(text, sep) == SplitFrom(text, sep, 1, <<>>)

IsBlank(text) == \A i \in 1..Len(text) : isspace(text[i])

\* The statements of a line: its pieces between ';', a blank last one left out.
StatementsOf(text) ==
    IF IsBlank(SplitOn(text, ";")[Len(SplitOn(text, ";"))])
    THEN SubSeq(SplitOn(text, ";"), 1, Len(SplitOn(text, ";")) - 1)
    ELSE SplitOn(text, ";")

\* What dtostr prints for each atom.
AtomText(a) ==
    CASE a = <<"2">> -> <<"2">>
      [] a = <<"1", "0">> -> <<"1", "0">>
      [] a = <<"1", ".", "5">> -> <<"1", ".", "5">>
      [] a = <<"3", "e", "2">> -> <<"3", "0", "0">>
      [] a = <<"e">> -> <<"2", ".", "7", "1", "8", "2", "8">>
      [] a = <<"p", "i">> -> <<"3", ".", "1", "4", "1", "5", "9">>

\* The member of MathFunctions a function name stands for.
FunctionOf(f) ==
    CASE f = <<"c", "o", "s">> -> "COS"
      [] f = <<"e", "x", "p">> -> "EXP"
      [] f = <<"l", "o", "g">> -> "LOG"
      [] f = <<"s", "i", "n">> -> "SIN"
      [] f = <<"t", "a", "n">> -> "TAN"

Compiled == pc \in {"understanding", "run", "clear"}

Reconstructed == pc \in {"run", "clear"}

(***************************************************************************)
(* C1.  Printer round trip: for every line parse() accepts, parsing the    *)
(* text understanding() returns yields the same instruction sequence as    *)
(* the line itself (constants compared by pool position).  Stated here for *)
(* the lines parsed without any diagnostic, whose replay is well defined.  *)
(***************************************************************************)
C1_RoundTrip ==
    (pc = "run" /\ Len(Diagnostics(out)) = 0)
        => /\ Len(Reconstructions(out)) = 1
           /\ parse(Reconstructions(out)[1].text, Fresh).ok
           /\ SameProgram(parse(Reconstructions(out)[1].text, Fresh).symbols, symbols)

(***************************************************************************)
(* C2.  Every syntax error aborts the whole line: once the parser has      *)
(* printed a diagnostic for a line, eval() returns false, neither          *)
(* understanding() nor run() is executed and no result is reported.        *)
(***************************************************************************)
C2_SyntaxErrorAborts ==
    Len(Diagnostics(out)) > 0
        => /\ pc \notin {"understanding", "run", "stopped"}
           /\ ~Printed(out, "Understanding:")
           /\ Len(Evaluations(out)) = 0
           /\ (pc = "clear" => ret = "false")

(***************************************************************************)
(* C3.  Interpreter stack safety: a Program of a parse() that returned     *)
(* true is replayed by understanding() and run() without reading or        *)
(* popping an empty stack, and leaves the stack empty ("unfinished" is     *)
(* never printed).                                                         *)
(***************************************************************************)
C3_StackSafety ==
    /\ pc # "stopped"
    /\ ~Printed(out, "unfinished")
    /\ (pc \in {"understanding", "run"}
            => /\ ~understanding(symbols, constants, "stop").stopped
               /\ ~run(symbols, constants, "stop").stopped)

(***************************************************************************)
(* C4.  Exponentiation is right-associative and a unary minus in the right *)
(* operand scopes over the rest of the chain: a^b^c compiles to            *)
(* [a, b, c, ^, ^, ;], a^-b^c to [a, b, c, ^, negate, ^, ;] with the       *)
(* reconstruction (a^(-(b^c))), and -a^b to [a, b, ^, negate, ;].          *)
(***************************************************************************)
C4_PowerRightAssociative ==
    line \in PowerLines
        => /\ pc \notin {"error", "stopped"}
           /\ \A a \in Atoms, b \in Atoms :
                (Compiled /\ line = <<"-">> \o a \o <<"^">> \o b)
                    => SameProgram(symbols,
                           << PushConstant(0), PushConstant(1), ApplyOperator("^"),
                              ApplyOperator("n"), StatementEnd >>)
           /\ \A a \in Atoms, b \in Atoms, c \in Atoms :
                /\ (Compiled /\ line = a \o <<"^">> \o b \o <<"^">> \o c)
                      => SameProgram(symbols,
                             << PushConstant(0), PushConstant(1), PushConstant(2),
                                ApplyOperator("^"), ApplyOperator("^"), StatementEnd >>)
                /\ (Compiled /\ line = a \o <<"^", "-">> \o b \o <<"^">> \o c)
                      => SameProgram(symbols,
                             << PushConstant(0), PushConstant(1), PushConstant(2),
                                ApplyOperator("^"), ApplyOperator("n"),
                                ApplyOperator("^"), StatementEnd >>)
                /\ (Reconstructed /\ line = a \o <<"^", "-">> \o b \o <<"^">> \o c)
                      => /\ Len(Reconstructions(out)) = 1
                         /\ Reconstructions(out)[1].text
                              = <<"(">> \o AtomText(a) \o <<"^", "(", "-", "(">>
                                \o AtomText(b) \o <<"^">> \o AtomText(c)
                                \o <<")", ")", ")", ";", "\n">>

C4_Witness ==
    /\ pc = "run"
    /\ line = <<"2", "^", "-", "1", "0", "^", "p", "i">>
    /\ Len(symbols) = 7
    /\ symbols[5].value = "n"

(***************************************************************************)
(* C5.  Additive and multiplicative chains are left-associative and        *)
(* multiplication binds tighter than addition: a-b-c compiles to           *)
(* [a, b, -, c, -, ;], a/b*c to [a, b, /, c, *, ;], a+b*c to               *)
(* [a, b, c, *, +, ;], and in a chain x1 op1 x2 ... opN x(N+1) of one tier *)
(* each operator is emitted right after its right operand, in source       *)
(* order.                                                                  *)
(***************************************************************************)
\* [x1, x2, op1, x3, op2, ...] for the chain text x1 op1 x2 ... of
\* one-character operands, up to its n-th operator.
RECURSIVE ChainProgram(_, _)
ChainProgram(text, n) ==
    IF n = 0 THEN <<PushConstant(0)>>
    ELSE ChainProgram(text, n - 1) \o <<PushConstant(n), ApplyOperator(text[2 * n])>>

C5_TiersLeftAssociative ==
    /\ line \in TierLines
         => /\ pc \notin {"error", "stopped"}
            /\ \A a \in Atoms, b \in Atoms, c \in Atoms :
                 /\ (Compiled /\ line = a \o <<"-">> \o b \o <<"-">> \o c)
                       => SameProgram(symbols,
                              << PushConstant(0), PushConstant(1), ApplyOperator("-"),
                                 PushConstant(2), ApplyOperator("-"), StatementEnd >>)
                 /\ (Compiled /\ line = a \o <<"/">> \o b \o <<"*">> \o c)
                       => SameProgram(symbols,
                              << PushConstant(0), PushConstant(1), ApplyOperator("/"),
                                 PushConstant(2), ApplyOperator("*"), StatementEnd >>)
                 /\ (Compiled /\ line = a \o <<"+">> \o b \o <<"*">> \o c)
                       => SameProgram(symbols,
                              << PushConstant(0), PushConstant(1), PushConstant(2),
                                 ApplyOperator("*"), ApplyOperator("+"), StatementEnd >>)
    /\ line \in ChainLines
         => /\ pc \notin {"error", "stopped"}
            /\ Compiled
                 => SameProgram(symbols,
                        Append(ChainProgram(line, Len(line) \div 2), StatementEnd))

C5_Witness ==
    /\ pc = "run"
    /\ line = <<"2", "-", "e", "+", "2", "-", "e">>
    /\ Len(symbols) = 8
    /\ symbols[3].value = "-"
    /\ symbols[5].value = "+"

(***************************************************************************)
(* C6.  Prefix function application takes exactly one operand, parsed      *)
(* through the unary tier: f g a compiles to [a, g, f, ;], f a^b to        *)
(* [a, b, ^, f, ;], f -a to [a, negate, f, ;] and f a^b*c to               *)
(* [a, b, ^, f, c, *, ;].                                                  *)
(***************************************************************************)
C6_FunctionTakesOneOperand ==
    line \in FunctionLines
        => /\ pc \notin {"error", "stopped"}
           /\ \A f \in FunctionNames, a \in Atoms :
                /\ (Compiled /\ line = f \o <<" ", "-">> \o a)
                      => SameProgram(symbols,
                             << PushConstant(0), ApplyOperator("n"),
                                CallFunction(FunctionOf(f)), StatementEnd >>)
                /\ \A g \in FunctionNames :
                     (Compiled /\ line = f \o <<" ">> \o g \o <<" ">> \o a)
                         => SameProgram(symbols,
                                << PushConstant(0), CallFunction(FunctionOf(g)),
                                   CallFunction(FunctionOf(f)), StatementEnd >>)
                /\ \A b \in Atoms :
                     /\ (Compiled /\ line = f \o <<" ">> \o a \o <<"^">> \o b)
                           => SameProgram(symbols,
                                  << PushConstant(0), PushConstant(1), ApplyOperator("^"),
                                     CallFunction(FunctionOf(f)), StatementEnd >>)
                     /\ \A c \in Atoms :
                          (Compiled /\ line = f \o <<" ">> \o a \o <<"^">> \o b \o <<"*">> \o c)
                              => SameProgram(symbols,
                                     << PushConstant(0), PushConstant(1),
                                        ApplyOperator("^"), CallFunction(FunctionOf(f)),
                                        PushConstant(2), ApplyOperator("*"),
                                        StatementEnd >>)

C6_Witness ==
    /\ pc = "run"
    /\ line = <<"s", "i", "n", " ", "2", "^", "e", "*", "1", "0">>
    /\ Len(symbols) = 7
    /\ symbols[4].type = "MATHFN"
    /\ symbols[6].value = "*"

(***************************************************************************)
(* C7.  One result per statement, in source order: for an accepted line of *)
(* k statements the Program holds k statement ends, understanding() emits  *)
(* k reconstructions and run() reports k results, the i-th being that of   *)
(* the i-th statement (evaluated on its own).                              *)
(***************************************************************************)
StatementEnds(p) == SelectSeq(p, LAMBDA x : x.type = "OPERATOR" /\ x.value = ";")

\* The reconstruction and the result of one statement taken as a line.
AloneText(stmt) ==
    understanding(parse(stmt, Fresh).symbols, parse(stmt, Fresh).constants, "stop").ret

AloneResult(stmt) ==
    run(parse(stmt, Fresh).symbols, parse(stmt, Fresh).constants, "stop").out

C7_OneResultPerStatement ==
    (pc \in {"clear", "stopped"} /\ Accepted)
        => /\ Len(StatementEnds(symbols)) = Len(StatementsOf(line))
           /\ Len(Reconstructions(out)) = 1
           /\ Len(SplitOn(Reconstructions(out)[1].text, "\n")) = Len(StatementsOf(line)) + 1
           /\ Len(Evaluations(out)) = Len(StatementsOf(line))
           /\ \A i \in 1..Len(StatementsOf(line)) :
                /\ Append(SplitOn(Reconstructions(out)[1].text, "\n")[i], "\n")
                     = AloneText(StatementsOf(line)[i])
                /\ <<Evaluations(out)[i]>> = AloneResult(StatementsOf(line)[i])

(***************************************************************************)
(* C8.  Per-line isolation: whatever the earlier lines were and however    *)
(* they ended, the Constant Pool and the Program are empty when the next   *)
(* line's parse begins, so what is compiled and printed for a line is what *)
(* a fresh evaluator compiles and prints for it.                           *)
(***************************************************************************)
C8_PerLineIsolation ==
    /\ pc = "eval" => (constants = <<>> /\ symbols = <<>>)
    /\ (pc = "understanding" \/ (pc = "error" /\ ~Accepted))
         => /\ Len(constants) = Len(parse(line, Fresh).constants)
            /\ SameProgram(symbols, parse(line, Fresh).symbols)
            /\ constants = parse(line, Fresh).constants
            /\ out = parse(line, Fresh).out
    /\ (pc = "clear" /\ ret = "true")
         => Evaluations(out)
              = run(parse(line, Fresh).symbols, parse(line, Fresh).constants, "stop").out

C8_Witness ==
    /\ pc = "understanding"
    /\ ret = "false"
    /\ line = <<"s", "i", "n", " ", "e">>
    /\ Len(constants) = 1
    /\ Len(symbols) = 3

(***************************************************************************)
(* C9.  A syntax error is reported once: the parser prints at most one     *)
(* diagnostic for a line.                                                  *)
(***************************************************************************)
C9_OneDiagnostic == Len(Diagnostics(out)) <= 1

(***************************************************************************)
(* C10.  Constant-pool index validity: in every state every PushConstant   *)
(* of the Program carries an index below the size of the Constant Pool;    *)
(* the j-th PushConstant carries the j-th pool entry, the one pushed with  *)
(* it; and a step either empties Program and pool together or extends      *)
(* both, so that entry stays what it was when the instruction was emitted. *)
(***************************************************************************)
ConstantSymbols == SelectSeq(symbols, LAMBDA x : x.type = "CONSTANT")

IndexesValid ==
    /\ \A i \in 1..Len(symbols) :
         symbols[i].type = "CONSTANT"
             => (symbols[i].value >= 0 /\ symbols[i].value < Len(constants))
    /\ Len(ConstantSymbols) = Len(constants)
    /\ \A j \in 1..Len(ConstantSymbols) : ConstantSymbols[j].value = j - 1

ExtendedOrCleared ==
    \/ constants' = <<>> /\ symbols' = <<>>
    \/ /\ Len(constants') >= Len(constants)
       /\ Len(symbols') >= Len(symbols)
       /\ SubSeq(constants', 1, Len(constants)) = constants
       /\ SameProgram(SubSeq(symbols', 1, Len(symbols)), symbols)

C10_PoolIndexValid == []IndexesValid /\ [][ExtendedOrCleared]_vars

C10_Witness ==
    /\ pc = "error"
    /\ ~Accepted
    /\ line = <<"e", ";", "q">>
    /\ Len(constants) = 1
    /\ Len(symbols) = 2
    /\ symbols[1].type = "CONSTANT"
    /\ symbols[1].value = 0

====
